---- MODULE Spec2Model ----
(***************************************************************************)
(* Model of the Scaleway inventory plugin                                  *)
(* (plugins/inventory/scaleway.py): the paginated fetch, the field         *)
(* extractors, the group matcher, the hostname resolver and the inventory  *)
(* build loop.                                                             *)
(*                                                                         *)
(* Encoding of Python values.  Strings are TLA+ strings.  The JSON null    *)
(* (Python None) in a scalar position is the string None; in the position  *)
(* of a nested object it is the record NullObj.  A dict is a function      *)
(* whose DOMAIN is the set of keys present, so a missing key (KeyError) is *)
(* a key outside the DOMAIN.  A list of tags is its set of elements (the   *)
(* code only ever uses it through set()).  An option of type list that     *)
(* was not given (None) is the empty tuple, a given one is <<S>>.          *)
(***************************************************************************)
EXTENDS Integers, Sequences, FiniteSets, TLC

VARIABLES
    mg,         \* call frame of match_groups (pure-function specification)
    fh,         \* call frame of _filter_host (pure-function specification)
    config,     \* the plugin options read by parse
    pc,         \* position of parse: "idle" | "loop" | "fetch" | "process" | "failed" | "done"
    todo,       \* zones of set(config_zones) not yet iterated
    zone,       \* loop variable of parse
    paginated_url,          \* _fetch_information: the URL of the next request
    results,                \* _fetch_information: records accumulated so far
    raw_zone_hosts_infos,   \* do_zone_inventory: the value _fetch_information returned
    inventory,  \* the inventory sink: groups, hosts, memberships, host variables
    log,        \* every request issued, in order, with the response it got
    fetched,    \* history: zone -> the records its fetch returned
    registered  \* history: <<zone, kind, name>> for every registration made while processing zone

vars == <<mg, fh, config, pc, todo, zone, paginated_url, results,
          raw_zone_hosts_infos, inventory, log, fetched, registered>>

-----------------------------------------------------------------------------
(* Bounds of the model *)

NumTags == 3
MaxPrefs == 2
MaxPages == 2

-----------------------------------------------------------------------------
(* Python values *)

None == "<None>"
NullObj == [null |-> TRUE]
EmptyDict == << >>

\* Python truthiness of a scalar: None and the empty string are falsy.
Truthy(v) == v # None /\ v # ""

\* An option of type list: not given, or given with its elements.
NotGiven == << >>
Given(S) == <<S>>
IsNone(opt) == Len(opt) = 0
Elems(opt) == opt[1]
\* Python truthiness of a list option: None and [] are falsy.
TruthyList(opt) == ~IsNone(opt) /\ Elems(opt) # {}

-----------------------------------------------------------------------------
(* Field extractors: each returns None on KeyError (missing key) and on   *)
(* TypeError (subscript of None).                                         *)

\* server_info[outer][inner] under try/except (KeyError, TypeError)
Nested(server_info, outer, inner) ==
    IF outer \notin DOMAIN server_info THEN None
    ELSE IF server_info[outer] = NullObj THEN None
    ELSE IF inner \notin DOMAIN server_info[outer] THEN None
    ELSE server_info[outer][inner]

\* server_info[key] under try/except (KeyError, TypeError)
Flat(server_info, key) ==
    IF key \notin DOMAIN server_info THEN None ELSE server_info[key]

extract_public_ipv4(server_info) == Nested(server_info, "public_ip", "address")

extract_private_ipv4(server_info) == Flat(server_info, "private_ip")

extract_hostname(server_info) == Flat(server_info, "hostname")

extract_server_id(server_info) == Flat(server_info, "id")

extract_public_ipv6(server_info) == Nested(server_info, "ipv6", "address")

extract_tags(server_info) == Flat(server_info, "tags")

extract_zone(server_info) == Nested(server_info, "location", "zone_id")

PrefKinds == {"public_ipv4", "private_ipv4", "public_ipv6", "hostname", "id"}

extractors(pref, server_info) ==
    CASE pref = "public_ipv4"  -> extract_public_ipv4(server_info)
      [] pref = "private_ipv4" -> extract_private_ipv4(server_info)
      [] pref = "public_ipv6"  -> extract_public_ipv6(server_info)
      [] pref = "hostname"     -> extract_hostname(server_info)
      [] pref = "id"           -> extract_server_id(server_info)

-----------------------------------------------------------------------------
(* Group matcher *)

\* Variant: only the matched tags become groups.
match_groups_matched_only(server_info, tags, mandatory_tags, exclude_tags) ==
    LET server_zone == extract_zone(server_info)
        server_tags == extract_tags(server_info)
    IN  IF server_zone = None THEN {}
        ELSE IF TruthyList(exclude_tags) /\ server_tags \cap Elems(exclude_tags) # {} THEN {}
        ELSE IF TruthyList(mandatory_tags) /\ ~(Elems(mandatory_tags) \subseteq server_tags) THEN {}
        ELSE LET mandatory == IF IsNone(mandatory_tags) THEN {} ELSE Elems(mandatory_tags)
             IN  IF IsNone(tags) THEN server_tags \cup {server_zone}
                 ELSE LET matching_tags == server_tags \cap Elems(tags)
                      IN  IF matching_tags = {} THEN {}
                          ELSE matching_tags \cup {server_zone} \cup mandatory

\* Variant: the tags filter is tested before the exclusion.
match_groups_include_first(server_info, tags, mandatory_tags, exclude_tags) ==
    LET server_zone == extract_zone(server_info)
        server_tags == extract_tags(server_info)
    IN  IF server_zone = None THEN {}
        ELSE IF ~IsNone(tags) /\ server_tags \cap Elems(tags) # {}
             THEN server_tags \cup {server_zone}
        ELSE IF TruthyList(exclude_tags) /\ server_tags \cap Elems(exclude_tags) # {} THEN {}
        ELSE IF TruthyList(mandatory_tags) /\ ~(Elems(mandatory_tags) \subseteq server_tags) THEN {}
        ELSE IF IsNone(tags) THEN server_tags \cup {server_zone} ELSE {}

\* Variant: the subset test on the mandatory tags is written the wrong way round.
match_groups_subset_swapped(server_info, tags, mandatory_tags, exclude_tags) ==
    LET server_zone == extract_zone(server_info)
        server_tags == extract_tags(server_info)
    IN  IF server_zone = None THEN {}
        ELSE IF TruthyList(exclude_tags) /\ server_tags \cap Elems(exclude_tags) # {} THEN {}
        ELSE IF TruthyList(mandatory_tags) /\ ~(server_tags \subseteq Elems(mandatory_tags)) THEN {}
        ELSE LET mandatory == IF IsNone(mandatory_tags) THEN {} ELSE Elems(mandatory_tags)
             IN  IF IsNone(tags) THEN server_tags \cup {server_zone}
                 ELSE LET matching_tags == server_tags \cap Elems(tags)
                      IN  IF matching_tags = {} THEN {}
                          ELSE matching_tags \cup {server_zone} \cup mandatory \cup server_tags

match_groups(server_info, tags, mandatory_tags, exclude_tags) ==
    LET server_zone == extract_zone(server_info)
        server_tags == extract_tags(server_info)
    IN  \* If a server does not have a zone, it means it is archived
        IF server_zone = None THEN {}
        \* return empty set if the server have an excluded tag
        ELSE IF TruthyList(exclude_tags) /\ server_tags \cap Elems(exclude_tags) # {} THEN {}
        \* if all the mandatory_tags are not present on the server, return empty
        ELSE IF TruthyList(mandatory_tags) /\ ~(Elems(mandatory_tags) \subseteq server_tags) THEN {}
        ELSE LET mandatory == IF IsNone(mandatory_tags) THEN {} ELSE Elems(mandatory_tags)
             IN  \* If no filtering is defined, all tags are valid groups
                 IF IsNone(tags) THEN server_tags \cup {server_zone}
                 ELSE LET matching_tags == server_tags \cap Elems(tags)
                      IN  IF matching_tags = {} THEN {}
                          ELSE matching_tags \cup {server_zone} \cup mandatory \cup server_tags

-----------------------------------------------------------------------------
(* Hostname resolver *)

RECURSIVE FilterFrom(_, _, _)
\* the for loop of _filter_host from position i on
FilterFrom(host_infos, hostname_preferences, i) ==
    IF i > Len(hostname_preferences) THEN None
    ELSE IF Truthy(extractors(hostname_preferences[i], host_infos))
         THEN extractors(hostname_preferences[i], host_infos)
         ELSE FilterFrom(host_infos, hostname_preferences, i + 1)

RECURSIVE FilterNotNoneFrom(_, _, _)
FilterNotNoneFrom(host_infos, hostname_preferences, i) ==
    IF i > Len(hostname_preferences) THEN None
    ELSE IF extractors(hostname_preferences[i], host_infos) # None
         THEN extractors(hostname_preferences[i], host_infos)
         ELSE FilterNotNoneFrom(host_infos, hostname_preferences, i + 1)

\* Variant: a value is accepted when it is not None, the empty string included.
_filter_host_not_none(host_infos, hostname_preferences) ==
    FilterNotNoneFrom(host_infos, hostname_preferences, 1)

_filter_host(host_infos, hostname_preferences) ==
    FilterFrom(host_infos, hostname_preferences, 1)

-----------------------------------------------------------------------------
(* Input universes of the pure-function specifications *)

TagNames == <<"foo", "bar", "alpha", "beta", "omega">>
Tags == {TagNames[i] : i \in 1..NumTags}

\* The tags / mandatory_tags / exclude_tags options: not given, or any list
\* over Tags (the empty list included).
FilterOpts == {NotGiven} \cup {Given(S) : S \in SUBSET Tags}

\* The shapes of the "location" field: key missing, null, a dict without
\* zone_id, a null zone_id, a zone_id.
Locations == {<< >>, <<NullObj>>, <<EmptyDict>>,
              <<[zone_id |-> None]>>, <<[zone_id |-> "fr-par-1"]>>}

\* A dict from a choice per key, <<>> for a missing key and <<v>> for value v.
MkDict(choice) ==
    [k \in {x \in DOMAIN choice : Len(choice[x]) = 1} |-> choice[k][1]]

MatchRecords ==
    {MkDict([location |-> l, tags |-> <<t>>]) : l \in Locations, t \in SUBSET Tags}

EmptyInventory == [groups |-> {}, hosts |-> {}, members |-> {}, hostvars |-> << >>]

\* The build does not run in the pure-function specifications.
BuildIdle ==
    /\ config = [zones |-> << >>, tags |-> NotGiven, mandatory_tags |-> NotGiven,
                 exclude_tags |-> NotGiven, hostnames |-> << >>,
                 organization_id |-> None]
    /\ pc = "idle"
    /\ todo = {}
    /\ zone = None
    /\ paginated_url = None
    /\ results = << >>
    /\ raw_zone_hosts_infos = << >>
    /\ inventory = EmptyInventory
    /\ log = << >>
    /\ fetched = << >>
    /\ registered = {}

buildVars == <<config, pc, todo, zone, paginated_url, results,
               raw_zone_hosts_infos, inventory, log, fetched, registered>>

MgIdle == mg = [server_info |-> << >>, tags |-> NotGiven, mandatory_tags |-> NotGiven,
                exclude_tags |-> NotGiven, ret |-> {}, called |-> FALSE]

FhIdle == fh = [host_infos |-> << >>, hostname_preferences |-> << >>,
                ret |-> None, called |-> FALSE]

-----------------------------------------------------------------------------
(* Specification SpecMatch: one call of match_groups on any input *)

InitMatch ==
    /\ mg \in [server_info : MatchRecords, tags : FilterOpts, mandatory_tags : FilterOpts,
                exclude_tags : FilterOpts, ret : {{}}, called : {FALSE}]
    /\ FhIdle
    /\ BuildIdle

CallMatchGroups ==
    /\ pc = "idle"
    /\ ~mg.called
    /\ mg' = [mg EXCEPT !.ret = match_groups(mg.server_info, mg.tags,
                                             mg.mandatory_tags, mg.exclude_tags),
                        !.called = TRUE]
    /\ UNCHANGED <<fh, buildVars>>

NextMatch == CallMatchGroups

SpecMatch == InitMatch /\ [][NextMatch]_vars

\* The record of the call, seen by the claims.
MgZone == extract_zone(mg.server_info)
MgTags == extract_tags(mg.server_info)
MgHasAllMandatory ==
    IsNone(mg.mandatory_tags) \/ Elems(mg.mandatory_tags) \subseteq MgTags
MgHasNoExcluded ==
    IsNone(mg.exclude_tags) \/ MgTags \cap Elems(mg.exclude_tags) = {}
MgHasOneOfTags ==
    IsNone(mg.tags) \/ MgTags \cap Elems(mg.tags) # {}
MgMandatorySet == IF IsNone(mg.mandatory_tags) THEN {} ELSE Elems(mg.mandatory_tags)

\* C1: with a tags filter set, for a record with a resolvable zone, no
\* excluded tag and all mandatory tags, the result is empty when the record
\* shares no tag with the filter and is otherwise exactly
\* tags(record) \cup {zone} \cup mandatory_tags.
C1_TagsFilterResult ==
    (mg.called /\ ~IsNone(mg.tags) /\ MgZone # None
        /\ MgHasNoExcluded /\ MgHasAllMandatory)
    => IF MgTags \cap Elems(mg.tags) = {}
       THEN mg.ret = {}
       ELSE mg.ret = MgTags \cup {MgZone} \cup MgMandatorySet

\* A matching record that carries a tag outside the filter, which is a group.
C1_Witness ==
    /\ mg.called /\ ~IsNone(mg.tags) /\ MgZone # None
    /\ MgHasNoExcluded /\ MgHasAllMandatory
    /\ MgTags \cap Elems(mg.tags) # {}
    /\ \E t \in MgTags : t \notin Elems(mg.tags) /\ t \in mg.ret

\* C2 as stated: mandatory_tags within the record's tags and no tags filter
\* give exactly tags(record) \cup {zone}, for every record.
C2_Original ==
    (mg.called /\ IsNone(mg.tags)
        /\ ~IsNone(mg.mandatory_tags) /\ Elems(mg.mandatory_tags) \subseteq MgTags)
    => mg.ret = MgTags \cup {MgZone}

\* C2 amended: the same, for a record whose zone is resolvable and which has
\* no tag of exclude_tags.
C2_NoFilterResult ==
    (mg.called /\ IsNone(mg.tags) /\ MgHasAllMandatory
        /\ MgZone # None /\ MgHasNoExcluded)
    => mg.ret = MgTags \cup {MgZone}

\* A record with more tags than the two mandatory ones, no tags filter.
C2_Witness ==
    /\ mg.called /\ IsNone(mg.tags) /\ MgZone # None /\ MgHasNoExcluded
    /\ ~IsNone(mg.mandatory_tags) /\ Cardinality(Elems(mg.mandatory_tags)) = 2
    /\ Elems(mg.mandatory_tags) \subseteq MgTags
    /\ Elems(mg.mandatory_tags) # MgTags
    /\ mg.ret = MgTags \cup {MgZone}

\* C3: a record with an unresolvable zone, and a record with a tag of a
\* non-empty exclude_tags, get the empty set whatever tags and
\* mandatory_tags are.
C3_ExclusionFirst ==
    (mg.called /\ (MgZone = None
                   \/ (~IsNone(mg.exclude_tags) /\ MgTags \cap Elems(mg.exclude_tags) # {})))
    => mg.ret = {}

\* An excluded record that satisfies a given tags filter and given mandatory tags.
C3_Witness ==
    /\ mg.called /\ MgZone # None
    /\ ~IsNone(mg.exclude_tags) /\ MgTags \cap Elems(mg.exclude_tags) # {}
    /\ ~IsNone(mg.tags) /\ MgTags \cap Elems(mg.tags) # {}
    /\ TruthyList(mg.mandatory_tags) /\ Elems(mg.mandatory_tags) \subseteq MgTags
    /\ mg.ret = {}

\* C4: for a record with a resolvable zone the result is non-empty exactly
\* when the record has all of mandatory_tags, at least one of tags when
\* tags is given, and none of exclude_tags; an option not given imposes
\* no condition.
C4_SelectionRule ==
    (mg.called /\ MgZone # None)
    => ((mg.ret # {}) <=> (MgHasAllMandatory /\ MgHasOneOfTags /\ MgHasNoExcluded))

\* A selected record with the three options given and non-empty.
C4_Witness ==
    /\ mg.called /\ MgZone # None /\ mg.ret # {}
    /\ TruthyList(mg.mandatory_tags) /\ TruthyList(mg.tags) /\ TruthyList(mg.exclude_tags)

-----------------------------------------------------------------------------
(* Specification SpecFilter: one call of _filter_host on any input *)

\* The shapes of a scalar field: key missing, null, empty, a value.
ScalarShapes(v) == {<< >>, <<None>>, <<"">>, <<v>>}
\* The shapes of a nested object with an address: key missing, null, a dict
\* without address, a null address, an empty address, an address.
AddressShapes(v) == {<< >>, <<NullObj>>, <<EmptyDict>>, <<[address |-> None]>>,
                     <<[address |-> ""]>>, <<[address |-> v]>>}

HostRecords ==
    {MkDict([hostname |-> h, id |-> i, private_ip |-> p, public_ip |-> q, ipv6 |-> s]) :
        h \in ScalarShapes("web1"), i \in {<< >>, <<None>>, <<"id-1">>},
        p \in ScalarShapes("10.0.0.2"), q \in AddressShapes("51.15.0.1"),
        s \in {<< >>, <<NullObj>>, <<[address |-> None]>>, <<[address |-> "2001:bc8::1"]>>}}

\* The hostnames option: a list of at most MaxPrefs of the allowed choices.
PrefLists == UNION {[1..n -> PrefKinds] : n \in 0..MaxPrefs}

InitFilter ==
    /\ fh \in [host_infos : HostRecords, hostname_preferences : PrefLists,
                ret : {None}, called : {FALSE}]
    /\ MgIdle
    /\ BuildIdle

CallFilterHost ==
    /\ pc = "idle"
    /\ ~fh.called
    /\ fh' = [fh EXCEPT !.ret = _filter_host(fh.host_infos, fh.hostname_preferences),
                        !.called = TRUE]
    /\ UNCHANGED <<mg, buildVars>>

NextFilter == CallFilterHost

SpecFilter == InitFilter /\ [][NextFilter]_vars

\* What the i-th preference of the call yields.
FhYield(i) == extractors(fh.hostname_preferences[i], fh.host_infos)
FhYields(i) == FhYield(i) # None /\ FhYield(i) # ""

\* C5: _filter_host returns the value of the first preference, in list
\* order, whose extractor yields a non-null, non-empty value, and None
\* exactly when no preference of the list yields one.
C5_FirstPreferenceWins ==
    fh.called =>
        LET n == Len(fh.hostname_preferences)
        IN  /\ (fh.ret = None) <=> (\A i \in 1..n : ~FhYields(i))
            /\ \A i \in 1..n :
                  (FhYields(i) /\ \A j \in 1..(i - 1) : ~FhYields(j)) => fh.ret = FhYield(i)

\* The first preference yields an empty string, the second a value, which is returned.
C5_Witness ==
    /\ fh.called
    /\ Len(fh.hostname_preferences) = 2
    /\ FhYield(1) = "" /\ FhYields(2)
    /\ fh.ret = FhYield(2)

-----------------------------------------------------------------------------
(* The Scaleway API, as the plugin sees it *)

api_url == "https://api.scaleway.com"

\* A response of open_url: a transport failure, or a body and headers.
\* The body is not JSON, or a JSON object (a dict).  The Link header is
\* missing, or a list of relations (the empty string is the empty list).
TransportError == [error |-> TRUE]
InvalidJson == [json |-> FALSE]
Response(body, headers) == [error |-> FALSE, body |-> body, headers |-> headers]
JsonBody(obj) == [json |-> TRUE, value |-> obj]

\* A server of zone z listed on page k.  Hostnames and private addresses
\* are the owner's choice and repeat across zones and pages; ids and public
\* addresses are unique.
Server(z, k, kind) ==
    LET uid == z \o "/" \o ToString(k) \o "/" \o kind
        common == [id |-> uid, arch |-> "x86_64", commercial_type |-> "DEV1-S",
                   organization |-> "org-1", location |-> [zone_id |-> z]]
    IN  CASE kind = "web" ->
               common @@ [hostname |-> "web1", state |-> "running", tags |-> {"foo", "bar"},
                          public_ip |-> [address |-> "ip-" \o uid], private_ip |-> "10.0.0.1",
                          ipv6 |-> NullObj]
          [] kind = "db" ->
               common @@ [hostname |-> "db1", state |-> "stopped", tags |-> {"foo", "alpha"},
                          public_ip |-> NullObj, private_ip |-> "10.0.0.2",
                          ipv6 |-> [address |-> "2001:bc8::" \o uid]]
          [] kind = "noname" ->
               common @@ [hostname |-> "", state |-> "starting", tags |-> {"foo"},
                          public_ip |-> NullObj, private_ip |-> None, ipv6 |-> NullObj]
          [] kind = "archived" ->
               [id |-> uid, arch |-> "x86_64", commercial_type |-> "DEV1-S",
                organization |-> "org-1", location |-> NullObj,
                hostname |-> "old1", state |-> "stopped", tags |-> {"foo", "bar"},
                public_ip |-> [address |-> "ip-" \o uid], private_ip |-> "10.0.0.3",
                ipv6 |-> NullObj]

\* The "servers" arrays page k of zone z may hold.
Pages(z, k) ==
    {<< >>,
     <<Server(z, k, "web"), Server(z, k, "archived")>>,
     <<Server(z, k, "noname"), Server(z, k, "db")>>}

PagePath(k) == "/servers?page=" \o ToString(k)

\* The Link headers of page k: none, empty, relations without next and,
\* while the listing has a further page, relations with next.
LinkHeaders(k) ==
    {<< >>, [Link |-> << >>],
     [Link |-> <<[relation |-> "last", target_IRI |-> PagePath(k)]>>]}
    \cup (IF k < MaxPages
          THEN {[Link |-> <<[relation |-> "last", target_IRI |-> PagePath(MaxPages)],
                            [relation |-> "next", target_IRI |-> PagePath(k + 1)]>>]}
          ELSE {})

\* What the API may answer to the k-th request of zone z's listing.
ApiResponses(z, k) ==
    {TransportError,
     Response(InvalidJson, << >>),
     Response(JsonBody([message |-> "permissions_denied"]), << >>)}
    \cup {Response(JsonBody([servers |-> p]), h) : p \in Pages(z, k), h \in LinkHeaders(k)}

\* Relation name -> target of a Link header value.
parse_pagination_link(header) ==
    [r \in {header[i].relation : i \in 1..Len(header)} |->
        header[CHOOSE i \in 1..Len(header) :
                  /\ header[i].relation = r
                  /\ \A j \in (i + 1)..Len(header) : header[j].relation # r].target_IRI]

-----------------------------------------------------------------------------
(* Paginated fetch: one iteration of the while loop of _fetch_information, *)
(* given the response of open_url.  outcome is "raise" (AnsibleError),     *)
(* "return" or "continue".                                                 *)

Raise(acc, url) ==
    [outcome |-> "raise", results |-> acc, paginated_url |-> url]

AfterBody(response, base_url, url, gathered) ==
    \* link = response.headers['Link'], None when the header is missing
    \* (the mapping of Python 3's http.client)
    IF "Link" \notin DOMAIN response.headers \/ response.headers["Link"] = << >>
    THEN [outcome |-> "return", results |-> gathered, paginated_url |-> url]
    ELSE LET relations == parse_pagination_link(response.headers["Link"])
         IN  IF "next" \notin DOMAIN relations
             THEN [outcome |-> "return", results |-> gathered, paginated_url |-> url]
             ELSE [outcome |-> "continue", results |-> gathered,
                   paginated_url |-> base_url \o relations["next"]]

\* Variant: results = raw_json["servers"] instead of results.extend(...).
_fetch_information_overwrites(response, acc, base_url, url) ==
    IF response.error THEN Raise(acc, url)
    ELSE IF ~response.body.json THEN Raise(acc, url)
    ELSE IF "servers" \notin DOMAIN response.body.value THEN Raise(acc, url)
    ELSE AfterBody(response, base_url, url, response.body.value["servers"])

\* Variant: a malformed body ends the listing with what was gathered.
_fetch_information_swallows(response, acc, base_url, url) ==
    IF response.error THEN Raise(acc, url)
    ELSE IF ~response.body.json \/ "servers" \notin DOMAIN response.body.value
         THEN [outcome |-> "return", results |-> acc, paginated_url |-> url]
    ELSE AfterBody(response, base_url, url,
                   acc \o response.body.value["servers"])

\* Variant: a transport failure is retried.
_fetch_information_retries(response, acc, base_url, url) ==
    IF response.error
    THEN [outcome |-> "continue", results |-> acc, paginated_url |-> url]
    ELSE IF ~response.body.json THEN Raise(acc, url)
    ELSE IF "servers" \notin DOMAIN response.body.value THEN Raise(acc, url)
    ELSE AfterBody(response, base_url, url,
                   acc \o response.body.value["servers"])

_fetch_information(response, acc, base_url, url) ==
    \* open_url raised
    IF response.error THEN Raise(acc, url)
    \* json.loads raised ValueError
    ELSE IF ~response.body.json THEN Raise(acc, url)
    \* raw_json["servers"] raised KeyError
    ELSE IF "servers" \notin DOMAIN response.body.value THEN Raise(acc, url)
    ELSE AfterBody(response, base_url, url,
                   acc \o response.body.value["servers"])

_build_server_url_suffix(query_string) == "/servers?" \o query_string

\* urlencode({"organization": organization_id}) when the option is given
query_parameters(organization_id) ==
    IF organization_id = None THEN "" ELSE "organization=" \o organization_id

BaseUrl(z) == api_url \o "/instance/v1/zones/" \o z

-----------------------------------------------------------------------------
(* The inventory sink and the build loop *)

\* the variables _fill_host_variables sets, over those the host already has
_fill_host_variables(old, server_info) ==
    LET targeted_attributes ==
            {"arch", "commercial_type", "id", "organization", "state", "hostname"}
        optional ==
            (IF Truthy(extract_public_ipv6(server_info)) THEN {"public_ipv6"} ELSE {})
            \cup (IF Truthy(extract_public_ipv4(server_info)) THEN {"public_ipv4"} ELSE {})
            \cup (IF Truthy(extract_private_ipv4(server_info)) THEN {"private_ipv4"} ELSE {})
        set == targeted_attributes \cup {"tags"} \cup optional
    IN  [k \in DOMAIN old \cup set |->
            IF k \in targeted_attributes \cup {"tags"} THEN server_info[k]
            ELSE IF k \in optional THEN extractors(k, server_info)
            ELSE old[k]]

\* add_group, add_host and _fill_host_variables for every group of the
\* record.  st is the inventory with the registration calls made so far.
\* The variables option is taken empty, so _set_composite_vars sets nothing.
Register(st, hostname, groups, server_info) ==
    LET inv == st.inventory
    IN  IF groups = {} THEN st
        ELSE [inventory |->
                 [groups   |-> inv.groups \cup groups,
                  hosts    |-> inv.hosts \cup {hostname},
                  members  |-> inv.members \cup {<<g, hostname>> : g \in groups},
                  hostvars |-> [h \in DOMAIN inv.hostvars \cup {hostname} |->
                                   IF h = hostname
                                   THEN _fill_host_variables(
                                            IF h \in DOMAIN inv.hostvars
                                            THEN inv.hostvars[h] ELSE << >>,
                                            server_info)
                                   ELSE inv.hostvars[h]]],
              calls |-> st.calls
                          \cup {[kind |-> "group", name |-> g] : g \in groups}
                          \cup {[kind |-> k, name |-> hostname] : k \in {"host", "variable"}}]

RECURSIVE DoZoneFrom(_, _, _, _)
\* the for loop of do_zone_inventory from record i on
DoZoneFrom(st, records, i, cfg) ==
    IF i > Len(records) THEN st
    ELSE LET host_infos == records[i]
             hostname == _filter_host(host_infos, cfg.hostnames)
         IN  IF ~Truthy(hostname) THEN DoZoneFrom(st, records, i + 1, cfg)
             ELSE DoZoneFrom(
                      Register(st, hostname,
                               match_groups(host_infos, cfg.tags, cfg.mandatory_tags,
                                            cfg.exclude_tags),
                               host_infos),
                      records, i + 1, cfg)

RECURSIVE DoZoneNoSkipFrom(_, _, _, _)
DoZoneNoSkipFrom(st, records, i, cfg) ==
    IF i > Len(records) THEN st
    ELSE DoZoneNoSkipFrom(
             Register(st, _filter_host(records[i], cfg.hostnames),
                      match_groups(records[i], cfg.tags, cfg.mandatory_tags, cfg.exclude_tags),
                      records[i]),
             records, i + 1, cfg)

\* Variant: a record without hostname is not skipped.
do_zone_inventory_no_skip(inv, records, cfg) ==
    DoZoneNoSkipFrom([inventory |-> inv, calls |-> {}], records, 1, cfg)

\* the part of do_zone_inventory after the fetch: the inventory it leaves
\* and the registration calls it made
do_zone_inventory(inv, records, cfg) ==
    DoZoneFrom([inventory |-> inv, calls |-> {}], records, 1, cfg)

Range(f) == {f[i] : i \in DOMAIN f}

-----------------------------------------------------------------------------
(* Specification Spec: parse, one build of the inventory *)

ConfigZones == {<<"nl-ams-1", "fr-par-1">>, <<"fr-par-1", "fr-par-1">>}
ConfigFilters ==
    {[tags |-> NotGiven, mandatory_tags |-> NotGiven, exclude_tags |-> NotGiven],
     [tags |-> Given({"foo"}), mandatory_tags |-> NotGiven, exclude_tags |-> Given({"alpha"})],
     [tags |-> NotGiven, mandatory_tags |-> Given({"foo", "bar"}), exclude_tags |-> NotGiven]}
ConfigHostnames == {<<"public_ipv4">>, <<"private_ipv4", "hostname">>}

Configs ==
    {[zones |-> z, tags |-> f.tags, mandatory_tags |-> f.mandatory_tags,
      exclude_tags |-> f.exclude_tags, hostnames |-> h, organization_id |-> None] :
        z \in ConfigZones, f \in ConfigFilters, h \in ConfigHostnames}

\* the state when parse reaches "for zone in set(config_zones)"
Init ==
    /\ MgIdle
    /\ FhIdle
    /\ config \in Configs
    /\ pc = "loop"
    /\ todo = Range(config.zones)
    /\ zone = None
    /\ paginated_url = None
    /\ results = << >>
    /\ raw_zone_hosts_infos = << >>
    /\ inventory = EmptyInventory
    /\ log = << >>
    /\ fetched = << >>
    /\ registered = {}

ZoneLog(z) == SelectSeq(log, LAMBDA e : e.zone = z)

\* parse: the next zone of the set, add_group(zone), and do_zone_inventory up
\* to the first request of _fetch_information
StartZone ==
    /\ pc = "loop"
    /\ \E z \in todo :
        /\ zone' = z
        /\ todo' = todo \ {z}
        /\ inventory' = [inventory EXCEPT !.groups = @ \cup {z}]
        /\ registered' = registered \cup {[zone |-> z, kind |-> "group", name |-> z]}
        /\ paginated_url' = BaseUrl(z) \o _build_server_url_suffix(
                                              query_parameters(config.organization_id))
    /\ results' = << >>
    /\ pc' = "fetch"
    /\ UNCHANGED <<mg, fh, config, raw_zone_hosts_infos, log, fetched>>

\* _fetch_information: one request and what the loop does with its response
FetchPage ==
    /\ pc = "fetch"
    /\ Len(ZoneLog(zone)) < MaxPages
    /\ \E response \in ApiResponses(zone, Len(ZoneLog(zone)) + 1) :
        LET step == _fetch_information(response, results, BaseUrl(zone), paginated_url)
        IN  /\ log' = Append(log, [zone |-> zone, url |-> paginated_url,
                                   response |-> response])
            /\ results' = step.results
            /\ paginated_url' = step.paginated_url
            /\ CASE step.outcome = "raise" ->
                      /\ pc' = "failed"
                      /\ UNCHANGED <<raw_zone_hosts_infos, fetched>>
                 [] step.outcome = "return" ->
                      /\ pc' = "process"
                      /\ raw_zone_hosts_infos' = step.results
                      /\ fetched' = (zone :> step.results) @@ fetched
                 [] step.outcome = "continue" ->
                      /\ pc' = "fetch"
                      /\ UNCHANGED <<raw_zone_hosts_infos, fetched>>
    /\ UNCHANGED <<mg, fh, config, todo, zone, inventory, registered>>

\* do_zone_inventory: the loop over the records fetched
ProcessZone ==
    /\ pc = "process"
    /\ LET done == do_zone_inventory(inventory, raw_zone_hosts_infos, config)
       IN  /\ inventory' = done.inventory
           /\ registered' = registered \cup
                 {[zone |-> zone, kind |-> c.kind, name |-> c.name] : c \in done.calls}
    /\ pc' = "loop"
    /\ UNCHANGED <<mg, fh, config, todo, zone, paginated_url, results,
                   raw_zone_hosts_infos, log, fetched>>

\* parse returns when the set of zones is exhausted
Return ==
    /\ pc = "loop"
    /\ todo = {}
    /\ pc' = "done"
    /\ UNCHANGED <<mg, fh, config, todo, zone, paginated_url, results,
                   raw_zone_hosts_infos, inventory, log, fetched, registered>>

Next == StartZone \/ FetchPage \/ ProcessZone \/ Return

Spec == Init /\ [][Next]_vars

-----------------------------------------------------------------------------
(* What the claims about the build read *)

Zones == Range(config.zones)
Suffix == _build_server_url_suffix(query_parameters(config.organization_id))

\* The response carried a "servers" array.
GoodPage(response) ==
    /\ ~response.error
    /\ response.body.json
    /\ "servers" \in DOMAIN response.body.value
\* The body is not valid JSON or lacks the servers key.
Malformed(response) ==
    /\ ~response.error
    /\ (~response.body.json \/ "servers" \notin DOMAIN response.body.value)
\* The Link header of the response has a next relation.
HasNext(response) ==
    /\ "Link" \in DOMAIN response.headers
    /\ \E i \in 1..Len(response.headers["Link"]) :
          response.headers["Link"][i].relation = "next"
NextTarget(response) ==
    LET link == response.headers["Link"]
    IN  link[CHOOSE i \in 1..Len(link) : link[i].relation = "next"].target_IRI

RECURSIVE ConcatServers(_)
ConcatServers(entries) ==
    IF entries = << >> THEN << >>
    ELSE entries[1].response.body.value["servers"] \o ConcatServers(Tail(entries))

\* Every record some fetch returned.
FetchedRecords == UNION {Range(fetched[z]) : z \in DOMAIN fetched}
HostnameOf(rec) == _filter_host(rec, config.hostnames)
GroupsOf(rec) == match_groups(rec, config.tags, config.mandatory_tags, config.exclude_tags)
Resolves(rec) == HostnameOf(rec) # None /\ HostnameOf(rec) # ""

\* C6: the requests of a zone's listing form a chain: the first goes to
\* base_url + url_suffix, each next one to base_url + the next relation of
\* the previous response; the fetch returns at the first page without a
\* next relation (Link missing, empty or without next), with the servers
\* arrays of all pages concatenated in order, and requests nothing after it.
C6_PaginationChain ==
    \A z \in Zones :
        LET L == ZoneLog(z)
        IN  /\ L # << >> => L[1].url = BaseUrl(z) \o Suffix
            /\ \A i \in 1..(Len(L) - 1) :
                  /\ GoodPage(L[i].response) /\ HasNext(L[i].response)
                  /\ L[i + 1].url = BaseUrl(z) \o NextTarget(L[i].response)
            /\ (z \in DOMAIN fetched) <=>
                  (L # << >> /\ GoodPage(L[Len(L)].response) /\ ~HasNext(L[Len(L)].response))
            /\ z \in DOMAIN fetched => fetched[z] = ConcatServers(L)

\* A listing of two pages was fetched, the second ending it with a Link
\* header that has relations but no next.
C6_Witness ==
    \E z \in DOMAIN fetched :
        /\ Len(ZoneLog(z)) = 2
        /\ "Link" \in DOMAIN ZoneLog(z)[2].response.headers
        /\ ZoneLog(z)[2].response.headers["Link"] # << >>
        /\ Len(fetched[z]) = 4
        /\ fetched[z][1] # fetched[z][3]

\* C7 as stated: after a malformed page of a zone the build has failed and
\* nothing at all was registered on behalf of that zone.
C7_Original ==
    \A i \in 1..Len(log) :
        Malformed(log[i].response) =>
            /\ pc = "failed"
            /\ \A r \in registered : r.zone # log[i].zone

\* C7 amended: after a malformed page of a zone the build has failed, the
\* only registration made on behalf of that zone is its own zone group
\* (added before the fetch), and the inventory holds no host, membership or
\* host variable but those of the zones processed before.
C7_NoPartialHosts ==
    \A i \in 1..Len(log) :
        Malformed(log[i].response) =>
            LET z == log[i].zone
                before == UNION {Range(fetched[y]) : y \in DOMAIN fetched \ {z}}
            IN  /\ pc = "failed"
                /\ \A r \in registered :
                      r.zone = z => (r.kind = "group" /\ r.name = z)
                /\ inventory.hosts =
                      {HostnameOf(rec) : rec \in {x \in before : Resolves(x) /\ GroupsOf(x) # {}}}
                /\ DOMAIN inventory.hostvars = inventory.hosts
                /\ {m[2] : m \in inventory.members} = inventory.hosts

\* The second page of a zone is malformed and the first held a record that
\* resolves to a hostname and matches groups.
C7_Witness ==
    /\ pc = "failed"
    /\ Len(ZoneLog(zone)) = 2
    /\ Malformed(ZoneLog(zone)[2].response)
    /\ \E rec \in Range(results) : Resolves(rec) /\ GroupsOf(rec) # {}

\* C8: a request that fails (transport failure or malformed response) is
\* the last request of the build, which has failed: it is not retried, no
\* later page and no other zone is requested, and no host of the failing
\* zone is registered.
C8_FailureAborts ==
    \A i \in 1..Len(log) :
        ~GoodPage(log[i].response) =>
            /\ i = Len(log)
            /\ pc = "failed"
            /\ \A r \in registered : r.zone = log[i].zone => r.kind = "group"

\* A transport failure on the second page of the first zone, with a zone
\* still to process.
C8_Witness ==
    /\ pc = "failed"
    /\ todo # {}
    /\ Len(log) = 2
    /\ log[2].response.error
    /\ results # << >>

RECURSIVE BuildInOrder(_, _)
\* The inventory parse builds when it iterates the zones in the given order.
BuildInOrder(order, inv) ==
    IF order = << >> THEN inv
    ELSE BuildInOrder(Tail(order),
                      do_zone_inventory([inv EXCEPT !.groups = @ \cup {order[1]}],
                                        fetched[order[1]], config).inventory)

Orders == {o \in [1..Cardinality(Zones) -> Zones] : Range(o) = Zones}

\* C9: a finished build has the inventory of every order of iteration over
\* the zones, for the responses it received.
C9_OrderIndependent ==
    pc = "done" => \A o \in Orders : inventory = BuildInOrder(o, EmptyInventory)

\* C10: after a successful build h is a member of g exactly when a fetched
\* record resolves to h and has g among its groups; those groups are
\* registered; the hosts and the hosts with variables are exactly the
\* hostnames of such records, so a record without hostname or without
\* groups adds nothing.
C10_MembershipExact ==
    pc = "done" =>
        LET kept == {rec \in FetchedRecords : Resolves(rec) /\ GroupsOf(rec) # {}}
        IN  /\ inventory.members =
                  UNION {{<<g, HostnameOf(rec)>> : g \in GroupsOf(rec)} : rec \in kept}
            /\ inventory.groups = Zones \cup UNION {GroupsOf(rec) : rec \in kept}
            /\ inventory.hosts = {HostnameOf(rec) : rec \in kept}
            /\ DOMAIN inventory.hostvars = inventory.hosts

\* A successful build that fetched a record without hostname and a record
\* without groups, and registered a host.
C10_Witness ==
    /\ pc = "done"
    /\ \E rec \in FetchedRecords : ~Resolves(rec)
    /\ \E rec \in FetchedRecords : Resolves(rec) /\ GroupsOf(rec) = {}
    /\ inventory.members # {}

====
